---- MODULE Spec2Model ----
(***************************************************************************)
(* Voice agent: the webhook server (voice-agent/src/server.js), its reply  *)
(* strategy (aiAgent.js) and the in-memory call state they share.          *)
(*                                                                         *)
(* Texts are JavaScript strings: finite sequences of UTF-16 code units.    *)
(* Every string literal of the source is written out as its code units,    *)
(* so that toLowerCase, trim, includes and escapeXml are computed on the   *)
(* same data the program computes them on.                                 *)
(***************************************************************************)
EXTENDS Integers, Sequences, FiniteSets, TLC

(***************************************************************************)
(* Bounds of the model.                                                    *)
(***************************************************************************)
\* Webhook deliveries (POST /voice, /gather, /status) in one behaviour.
MaxRequests == 3

\* Data lines of the contact file the dialer reads.
MaxContacts == 3

(***************************************************************************)
(* String literals of the source.                                          *)
(***************************************************************************)

\* server.js:50  "Nachalo zvonka" (start of the call)
SEED_CONTENT ==
    <<1053, 1072, 1095, 1072, 1083, 1086, 32, 1079, 1074, 1086, 1085, 1082,
      1072>>

\* server.js:53  the opening utterance
INTRO ==
    <<1047, 1076, 1088, 1072, 1074, 1089, 1090, 1074, 1091, 1081, 1090,
      1077, 33, 32, 1052, 1077, 1085, 1103, 32, 1079, 1086, 1074, 1091,
      1090, 32, 1040, 1085, 1085, 1072, 44, 32, 1103, 32, 1079, 1074, 1086,
      1085, 1102, 32, 1087, 1086, 32, 1087, 1086, 1074, 1086, 1076, 1091,
      32, 1082, 1088, 1072, 1090, 1082, 1086, 1075, 1086, 32, 1091, 1083,
      1091, 1095, 1096, 1077, 1085, 1080, 1103, 32, 1074, 1072, 1096, 1080,
      1093, 32, 1073, 1080, 1079, 1085, 1077, 1089, 45, 1087, 1088, 1086,
      1094, 1077, 1089, 1089, 1086, 1074, 46, 32, 1059, 1076, 1086, 1073,
      1085, 1086, 32, 1083, 1080, 32, 1087, 1086, 1075, 1086, 1074, 1086,
      1088, 1080, 1090, 1100, 32, 1084, 1080, 1085, 1091, 1090, 1091, 63>>

\* aiAgent.js:9-11  the system preamble
SYSTEM_PROMPT ==
    <<1058, 1099, 32, 8212, 32, 1074, 1077, 1078, 1083, 1080, 1074, 1099,
      1081, 32, 1088, 1091, 1089, 1089, 1082, 1086, 1103, 1079, 1099, 1095,
      1085, 1099, 1081, 32, 83, 68, 82, 45, 1072, 1075, 1077, 1085, 1090,
      32, 1087, 1086, 32, 1093, 1086, 1083, 1086, 1076, 1085, 1099, 1084,
      32, 1079, 1074, 1086, 1085, 1082, 1072, 1084, 46, 10, 1058, 1074,
      1086, 1103, 32, 1094, 1077, 1083, 1100, 32, 8212, 32, 1079, 1072, 32,
      50, 45, 52, 32, 1088, 1077, 1087, 1083, 1080, 1082, 1080, 32, 1074,
      1099, 1103, 1089, 1085, 1080, 1090, 1100, 32, 1087, 1086, 1090, 1088,
      1077, 1073, 1085, 1086, 1089, 1090, 1080, 32, 1080, 32, 1087, 1088,
      1077, 1076, 1083, 1086, 1078, 1080, 1090, 1100, 32, 1082, 1086, 1088,
      1086, 1090, 1082, 1080, 1081, 32, 1089, 1086, 1079, 1074, 1086, 1085,
      32, 1089, 32, 1084, 1077, 1085, 1077, 1076, 1078, 1077, 1088, 1086,
      1084, 46, 10, 1043, 1086, 1074, 1086, 1088, 1080, 32, 1082, 1086,
      1088, 1086, 1090, 1082, 1080, 1084, 1080, 32, 1092, 1088, 1072, 1079,
      1072, 1084, 1080, 32, 40, 49, 45, 50, 32, 1087, 1088, 1077, 1076,
      1083, 1086, 1078, 1077, 1085, 1080, 1103, 41, 44, 32, 1073, 1077,
      1079, 32, 1078, 1072, 1088, 1075, 1086, 1085, 1072, 46, 32, 1045,
      1089, 1083, 1080, 32, 1082, 1083, 1080, 1077, 1085, 1090, 32, 1103,
      1074, 1085, 1086, 32, 1085, 1077, 32, 1079, 1072, 1080, 1085, 1090,
      1077, 1088, 1077, 1089, 1086, 1074, 1072, 1085, 32, 8212, 32, 1087,
      1086, 1073, 1083, 1072, 1075, 1086, 1076, 1072, 1088, 1080, 32, 1080,
      32, 1074, 1077, 1078, 1083, 1080, 1074, 1086, 32, 1079, 1072, 1074,
      1077, 1088, 1096, 1072, 1081, 32, 1088, 1072, 1079, 1075, 1086, 1074,
      1086, 1088, 46>>

\* aiAgent.js:23  "ne interesno"
DECLINE_1 ==
    <<1085, 1077, 32, 1080, 1085, 1090, 1077, 1088, 1077, 1089, 1085, 1086>>

\* aiAgent.js:23  "neinteresno"
DECLINE_2 ==
    <<1085, 1077, 1080, 1085, 1090, 1077, 1088, 1077, 1089, 1085, 1086>>

\* aiAgent.js:23  "ne nado"
DECLINE_3 ==
    <<1085, 1077, 32, 1085, 1072, 1076, 1086>>

\* aiAgent.js:26  "pochta"
CONTACT_1 ==
    <<1087, 1086, 1095, 1090, 1072>>

\* aiAgent.js:26  "email"
CONTACT_2 ==
    <<101, 109, 97, 105, 108>>

\* aiAgent.js:26  "pismo"
CONTACT_3 ==
    <<1087, 1080, 1089, 1100, 1084, 1086>>

\* aiAgent.js:24  the polite closing ("... Horoshego dnya!")
FALLBACK_CLOSING ==
    <<1055, 1086, 1085, 1080, 1084, 1072, 1102, 44, 32, 1089, 1087, 1072,
      1089, 1080, 1073, 1086, 32, 1079, 1072, 32, 1074, 1088, 1077, 1084,
      1103, 46, 32, 1061, 1086, 1088, 1086, 1096, 1077, 1075, 1086, 32,
      1076, 1085, 1103, 33>>

\* aiAgent.js:27  asks for an e-mail address
FALLBACK_CONTACT ==
    <<1054, 1090, 1087, 1088, 1072, 1074, 1083, 1102, 32, 1082, 1088, 1072,
      1090, 1082, 1086, 1077, 32, 1087, 1080, 1089, 1100, 1084, 1086, 32,
      1089, 32, 1086, 1087, 1080, 1089, 1072, 1085, 1080, 1077, 1084, 46,
      32, 1055, 1086, 1076, 1089, 1082, 1072, 1078, 1080, 1090, 1077, 44,
      32, 1087, 1086, 1078, 1072, 1083, 1091, 1081, 1089, 1090, 1072, 44,
      32, 1091, 1076, 1086, 1073, 1085, 1099, 1081, 32, 101, 45, 109, 97,
      105, 108, 63>>

\* aiAgent.js:29  the qualifying question
FALLBACK_DEFAULT ==
    <<1057, 1082, 1072, 1078, 1080, 1090, 1077, 44, 32, 1087, 1086, 1078,
      1072, 1083, 1091, 1081, 1089, 1090, 1072, 44, 32, 1072, 1082, 1090,
      1091, 1072, 1083, 1100, 1085, 1072, 32, 1083, 1080, 32, 1076, 1083,
      1103, 32, 1074, 1072, 1089, 32, 1086, 1087, 1090, 1080, 1084, 1080,
      1079, 1072, 1094, 1080, 1103, 32, 1088, 1072, 1089, 1093, 1086, 1076,
      1086, 1074, 32, 1080, 32, 1072, 1074, 1090, 1086, 1084, 1072, 1090,
      1080, 1079, 1072, 1094, 1080, 1103, 32, 1074, 32, 1073, 1083, 1080,
      1078, 1072, 1081, 1096, 1080, 1081, 32, 1084, 1077, 1089, 1103, 1094,
      63>>

\* aiAgent.js:50  "horoshego dnya"
MARKER_1 ==
    <<1093, 1086, 1088, 1086, 1096, 1077, 1075, 1086, 32, 1076, 1085, 1103>>

\* aiAgent.js:50  "do svidaniya"
MARKER_2 ==
    <<1076, 1086, 32, 1089, 1074, 1080, 1076, 1072, 1085, 1080, 1103>>

\* aiAgent.js:50  "do vstrechi"
MARKER_3 ==
    <<1076, 1086, 32, 1074, 1089, 1090, 1088, 1077, 1095, 1080>>

\* aiAgent.js:50  "zavershayu"
MARKER_4 ==
    <<1079, 1072, 1074, 1077, 1088, 1096, 1072, 1102>>

\* aiAgent.js:52  the reply used when the completion text is empty
EMPTY_AI_DEFAULT ==
    <<1057, 1087, 1072, 1089, 1080, 1073, 1086, 33, 32, 1055, 1086, 1076,
      1089, 1082, 1072, 1078, 1080, 1090, 1077, 44, 32, 1087, 1086, 1078,
      1072, 1083, 1091, 1081, 1089, 1090, 1072, 44, 32, 1091, 1076, 1086,
      1073, 1085, 1086, 32, 1083, 1080, 32, 1073, 1091, 1076, 1077, 1090,
      32, 1085, 1072, 32, 1082, 1086, 1088, 1086, 1090, 1082, 1080, 1081,
      32, 1079, 1074, 1086, 1085, 1086, 1082, 32, 1079, 1072, 1074, 1090,
      1088, 1072, 63>>

\* server.js:36  "&amp;"
AMP ==
    <<38, 97, 109, 112, 59>>

\* server.js:37  "&lt;"
LT ==
    <<38, 108, 116, 59>>

\* server.js:38  "&gt;"
GT ==
    <<38, 103, 116, 59>>

\* server.js:39  "&quot;"
QUOT ==
    <<38, 113, 117, 111, 116, 59>>

\* server.js:40  "&#039;"
APOS ==
    <<38, 35, 48, 51, 57, 59>>


(***************************************************************************)
(* Inputs the environment supplies.                                        *)
(***************************************************************************)

\* a caller declining, in mixed case: "Mne NE NADO"
SpeechDecline ==
    <<1052, 1085, 1077, 32, 1053, 1045, 32, 1053, 1040, 1044, 1054>>

\* a caller asking for mail: "Pochta"
SpeechContact ==
    <<1055, 1086, 1095, 1090, 1072>>

\* a completion with surrounding blanks and a markup character: " Ok & da "
AiPlain ==
    <<32, 1054, 1082, 32, 38, 32, 1076, 1072, 32>>

\* a completion that says goodbye: "Do Svidaniya!" and a newline
AiClosing ==
    <<1044, 1086, 32, 1057, 1074, 1080, 1076, 1072, 1085, 1080, 1103, 33,
      10>>

\* a completion of white space only
AiBlank ==
    <<32, 10>>

\* declining with the first phrase: "Spasibo, Ne Interesno."
SpeechDecline1 ==
    <<1057, 1087, 1072, 1089, 1080, 1073, 1086, 44, 32, 1053, 1077, 32,
      1048, 1085, 1090, 1077, 1088, 1077, 1089, 1085, 1086, 46>>

\* declining with the second phrase: "NEINTERESNO"
SpeechDecline2 ==
    <<1053, 1045, 1048, 1053, 1058, 1045, 1056, 1045, 1057, 1053, 1054>>

\* declining and naming a letter: "Ne nado, prishlite pismo"
SpeechDeclineMail ==
    <<1053, 1077, 32, 1085, 1072, 1076, 1086, 44, 32, 1087, 1088, 1080,
      1096, 1083, 1080, 1090, 1077, 32, 1087, 1080, 1089, 1100, 1084, 1086>>

\* neither declining nor asking for mail: "Da, slushayu"
SpeechOther ==
    <<1044, 1072, 44, 32, 1089, 1083, 1091, 1096, 1072, 1102>>

\* a completion wishing a good day: "Spasibo. HOROSHEGO DNYA"
AiGoodDay ==
    <<1057, 1087, 1072, 1089, 1080, 1073, 1086, 46, 32, 1061, 1054, 1056,
      1054, 1064, 1045, 1043, 1054, 32, 1044, 1053, 1071>>

\* a completion with the third marker: "do vstrechi zavtra"
AiSeeYou ==
    <<1076, 1086, 32, 1074, 1089, 1090, 1088, 1077, 1095, 1080, 32, 1079,
      1072, 1074, 1090, 1088, 1072>>

\* a completion with the fourth marker: "Ya zavershayu zvonok"
AiEnding ==
    <<1071, 32, 1079, 1072, 1074, 1077, 1088, 1096, 1072, 1102, 32, 1079,
      1074, 1086, 1085, 1086, 1082>>

(***************************************************************************)
(* String primitives of the JavaScript runtime the source relies on.       *)
(***************************************************************************)
\* F applied to the value of v, v being evaluated once (JavaScript passes
\* values; this keeps an argument from being recomputed at each use).
WithValue(v, F(_)) == CHOOSE r \in { F(x) : x \in {v} } : TRUE

\* String.prototype.toLowerCase on one code unit (Basic Latin and Cyrillic).
LowerUnit(c) ==
    IF c \in 65..90 \/ c \in 1040..1071 THEN c + 32
    ELSE IF c \in 1024..1039 THEN c + 80
    ELSE c

\* Mutation: the text is compared as spoken, without folding the case.
toLowerCase_CaseKept(s) == s

toLowerCase(s) == [i \in 1..Len(s) |-> LowerUnit(s[i])]

\* String.prototype.includes: pat occurs in s as a contiguous substring.
includes(s, pat) ==
    \E i \in 0..(Len(s) - Len(pat)) : SubSeq(s, i + 1, i + Len(pat)) = pat

\* White space removed by String.prototype.trim.
IsSpace(c) ==
    \/ c \in {9, 10, 11, 12, 13, 32, 160, 5760, 8232, 8233, 8239, 8287, 12288, 65279}
    \/ c \in 8192..8202

RECURSIVE trimStart(_)
trimStart(s) ==
    IF s # <<>> /\ IsSpace(s[1]) THEN trimStart(Tail(s)) ELSE s

RECURSIVE trimEnd(_)
trimEnd(s) ==
    IF s # <<>> /\ IsSpace(s[Len(s)]) THEN trimEnd(SubSeq(s, 1, Len(s) - 1)) ELSE s

trim(s) == trimEnd(trimStart(s))

(***************************************************************************)
(* aiAgent.js: the reply strategy.                                         *)
(***************************************************************************)
Turn(role, content) == [role |-> role, content |-> content]

RECURSIVE buildMessagesFromHistory(_)
buildMessagesFromHistory(history) ==
    IF history = <<>>
    THEN << Turn("system", SYSTEM_PROMPT) >>
    ELSE Append(buildMessagesFromHistory(SubSeq(history, 1, Len(history) - 1)),
                Turn(history[Len(history)].role, history[Len(history)].content))

\* What the promise of getAgentReply settles to: it is fulfilled with
\* { text, shouldHangup }, or it is rejected with an error (Raised).
Reply(text, shouldHangup) ==
    [text |-> text, shouldHangup |-> shouldHangup, raised |-> FALSE]

Raised == [text |-> << >>, shouldHangup |-> FALSE, raised |-> TRUE]

\* Mutation: the contact phrases are tested before the decline phrases.
ruleBasedFallback_ContactFirst(userText) ==
    WithValue(toLowerCase(userText), LAMBDA text :
        IF includes(text, CONTACT_1) \/ includes(text, CONTACT_2) \/ includes(text, CONTACT_3)
        THEN Reply(FALLBACK_CONTACT, FALSE)
        ELSE IF includes(text, DECLINE_1) \/ includes(text, DECLINE_2) \/ includes(text, DECLINE_3)
        THEN Reply(FALLBACK_CLOSING, TRUE)
        ELSE Reply(FALLBACK_DEFAULT, FALSE))

ruleBasedFallback(userText) ==
    WithValue(toLowerCase(userText), LAMBDA text :
        IF includes(text, DECLINE_1) \/ includes(text, DECLINE_2) \/ includes(text, DECLINE_3)
        THEN Reply(FALLBACK_CLOSING, TRUE)
        ELSE IF includes(text, CONTACT_1) \/ includes(text, CONTACT_2) \/ includes(text, CONTACT_3)
        THEN Reply(FALLBACK_CONTACT, FALSE)
        ELSE Reply(FALLBACK_DEFAULT, FALSE))

\* The messages getAgentReply hands to the completion service.
requestMessages(callHistory, latestUserText) ==
    Append(buildMessagesFromHistory(callHistory), Turn("user", latestUserText))

\* The outcome of openaiClient.chat.completions.create: it resolves with a
\* completion whose first choice carries a content or none (<< >> is "no
\* content": choices?.[0]?.message?.content is undefined), or it rejects.
Resolved(content) == [kind |-> "resolved", content |-> content]
Rejected == [kind |-> "rejected", content |-> << >>]
NoOutcome == [kind |-> "none", content |-> << >>]

\* Mutation: the completion text is returned as it is, empty or not.
replyFromCompletion_NoDefault(completion) ==
    WithValue(IF completion.content = << >> THEN << >>
              ELSE trim(completion.content[1]), LAMBDA aiText :
    WithValue(toLowerCase(aiText), LAMBDA lc :
        Reply(aiText, \/ includes(lc, MARKER_1) \/ includes(lc, MARKER_2)
                      \/ includes(lc, MARKER_3) \/ includes(lc, MARKER_4))))

\* Mutation: the last marker is not looked for.
replyFromCompletion_ThreeMarkers(completion) ==
    WithValue(IF completion.content = << >> THEN << >>
              ELSE trim(completion.content[1]), LAMBDA aiText :
    WithValue(toLowerCase(aiText), LAMBDA lc :
        Reply(IF aiText # << >> THEN aiText ELSE EMPTY_AI_DEFAULT,
              \/ includes(lc, MARKER_1) \/ includes(lc, MARKER_2)
              \/ includes(lc, MARKER_3))))

\* The body of the try block once the completion has resolved.
replyFromCompletion(completion) ==
    WithValue(IF completion.content = << >> THEN << >>
              ELSE trim(completion.content[1]), LAMBDA aiText :
    WithValue(toLowerCase(aiText), LAMBDA lc :
        LET shouldHangup ==
                \/ includes(lc, MARKER_1)
                \/ includes(lc, MARKER_2)
                \/ includes(lc, MARKER_3)
                \/ includes(lc, MARKER_4)
        IN  Reply(IF aiText # << >> THEN aiText ELSE EMPTY_AI_DEFAULT,
                  shouldHangup)))

\* Mutation: no try/catch around the completion call.
getAgentReply_NoCatch(client, latestUserText, completion) ==
    IF ~client THEN ruleBasedFallback(latestUserText)
    ELSE IF completion.kind = "rejected" THEN Raised
    ELSE replyFromCompletion(completion)

\* getAgentReply as a function of the client's presence and of the outcome
\* of the external call (not consulted when there is no client).
getAgentReply(client, latestUserText, completion) ==
    IF ~client THEN ruleBasedFallback(latestUserText)
    ELSE IF completion.kind = "rejected" THEN ruleBasedFallback(latestUserText)
    ELSE replyFromCompletion(completion)

(***************************************************************************)
(* server.js: rendering.                                                   *)
(***************************************************************************)
\* String.prototype.replace with a global one-character pattern: every
\* occurrence of the code unit c in s becomes the text by. (The recursion
\* halves s; the result is the left-to-right replacement.)
RECURSIVE replaceAll(_, _, _)
replaceAll(text, c, by) ==
    WithValue(text, LAMBDA s :
        IF \A i \in DOMAIN s : s[i] # c THEN s
        ELSE IF Len(s) = 1 THEN by
        ELSE replaceAll(SubSeq(s, 1, Len(s) \div 2), c, by)
                \o replaceAll(SubSeq(s, Len(s) \div 2 + 1, Len(s)), c, by))

escapeXml(unsafe) ==
    replaceAll(replaceAll(replaceAll(replaceAll(replaceAll(unsafe,
        38, AMP), 60, LT), 62, GT), 34, QUOT), 39, APOS)

\* The <Response> document as the elements it holds: Say is << >> when the
\* element is absent and << text >> when present.
NoXml == [Say |-> << >>, Hangup |-> FALSE, Gather |-> FALSE]

twimlResponse(message, gatherNext, hangup) ==
    [Say    |-> IF message # << >> THEN << escapeXml(message) >> ELSE << >>,
     Hangup |-> hangup,
     Gather |-> ~hangup /\ gatherNext]

(***************************************************************************)
(* server.js: the webhook handlers and the state they share.               *)
(***************************************************************************)
\* CallSid values the carrier sends; << >> is a request without CallSid.
CallSidInputs == { << >>, << "CA1" >> }

\* Values Date.now() takes when a request carries no CallSid.
Clock == {1}

\* req.body.CallSid || `local-${Date.now()}`
callSidOf(body, now) == IF body # << >> THEN body ELSE << "local-", now >>

CallSids == { callSidOf(b, t) : b \in CallSidInputs, t \in Clock }

\* req.body.SpeechResult || req.body.speechResult || ""  (a missing or empty
\* field both give the empty string).
SpeechInputs == { << >>, SpeechDecline }

\* What the completion service may answer.
Outcomes == { Rejected, Resolved(<< AiClosing >>) }

VARIABLES
    env,             \* process.env after dotenv.config(): the names that
                     \* are set (server.js:7, dialer.js:9, aiAgent.js:3)
    openaiClient,    \* aiAgent.js: whether OPENAI_API_KEY gave a client
    callHistories,   \* the Map: CallSid -> reference to an array, or NoRef
    heap,            \* the arrays of turns: heap[k][n] is the n-th array
                     \* created by a handler serving CallSid k
    reqs,            \* per CallSid, the /voice and /gather deliveries in
                     \* arrival order, each with its handler's local state
                     \* and the response it sent
    statusLog        \* number of lines /status has logged

\* The dialer process (dialer.js).
VARIABLES
    argv,            \* the parsed command line: [rate |-> calls per minute]
    csv,             \* the contact file: its header and its data lines
    dialerPc,        \* position of the dialer process
    streamPos,       \* readContacts: data lines the stream has emitted
    records,         \* readContacts: rows kept so far, then main's contacts
    index,           \* dialAll: the loop's counter
    attempts,        \* client.calls.create invocations, in order
    console,         \* lines written by console.log and console.error
    clockMs,         \* milliseconds since the dialer started
    exitCode,        \* exit status of the dialer process
    dialed           \* what `await dialAll(contacts)` gave main

serverVars == << openaiClient, callHistories, heap, reqs, statusLog >>

dialVars ==
    << argv, csv, dialerPc, streamPos, records, index, attempts, console, clockMs, exitCode,
       dialed >>

vars == << env, serverVars, dialVars >>

\* Environment variables the two processes read.
EnvNames == { "OPENAI_API_KEY", "TWILIO_ACCOUNT_SID", "TWILIO_AUTH_TOKEN" }

\* Environments the server is started in: everything set, the completion
\* key missing, nothing set.
ServerEnvs == { EnvNames, EnvNames \ {"OPENAI_API_KEY"}, {} }

\* Exit status of a process: none while it runs, then << code >>.
NoExit == << >>
Exit(code) == << code >>

\* No dialer process has been started.
DialerOff ==
    /\ argv = [rate |-> << 12, 1 >>]
    /\ csv = [columns |-> << >>, lines |-> << >>]
    /\ dialerPc = "off"
    /\ streamPos = 0
    /\ records = << >>
    /\ index = 0
    /\ attempts = << >>
    /\ console = << >>
    /\ clockMs = 0
    /\ exitCode = NoExit
    /\ dialed = "pending"

SEED == Turn("system", SEED_CONTENT)

\* A reference to an array, and the absence of one.
Ref(sid, n) == [sid |-> sid, n |-> n]
NoRef == Ref(<< >>, 0)

\* One delivery: its route and input, whether a handler for the same CallSid
\* was suspended when it arrived, the handler's position (pc) and locals
\* (history, messages, completion), and, once answered, the reply it got and
\* the document it sent. pc is "await" at the completion call, "settled" once
\* the completion promise has settled, "done" once the response is sent and
\* "failed" if the handler's promise was rejected (no response is sent).
Request(route, speech, overlap, pc, history, messages, completion, reply, xml) ==
    [route |-> route, speech |-> speech, overlap |-> overlap, pc |-> pc,
     history |-> history, messages |-> messages, completion |-> completion,
     reply |-> reply, xml |-> xml]

NoReply == Reply(<< >>, FALSE)

Suspended(r) == r.pc \in {"await", "settled"}

AnySuspended(callSid) == \E j \in DOMAIN reqs[callSid] : Suspended(reqs[callSid][j])

\* Deliveries so far, over all routes.
RECURSIVE SumLen(_, _)
SumLen(f, S) ==
    IF S = {} THEN 0
    ELSE LET k == CHOOSE x \in S : TRUE
         IN  Len(f[k]) + SumLen(f, S \ {k})

Delivered == SumLen(reqs, CallSids) + statusLog

Init ==
    /\ env \in ServerEnvs
    /\ openaiClient = ("OPENAI_API_KEY" \in env)
    /\ DialerOff
    /\ callHistories = [k \in CallSids |-> NoRef]
    /\ heap = [k \in CallSids |-> << >>]
    /\ reqs = [k \in CallSids |-> << >>]
    /\ statusLog = 0

\* The document /voice answers with (the same for every call).
introXml == twimlResponse(INTRO, TRUE, FALSE)

\* The array a handler serving callSid would create next.
newRef(callSid) == Ref(callSid, Len(heap[callSid]) + 1)

\* Mutation: /voice creates the session only if the Map has none.
Voice_CreateIfAbsent(body, now) ==
    LET callSid == callSidOf(body, now)
    IN  /\ Delivered < MaxRequests
        /\ IF callHistories[callSid] # NoRef
           THEN UNCHANGED << heap, callHistories >>
           ELSE /\ heap' = [heap EXCEPT ![callSid] = Append(@, << SEED >>)]
                /\ callHistories' = [callHistories EXCEPT ![callSid] = newRef(callSid)]
        /\ reqs' = [reqs EXCEPT ![callSid] =
                        Append(@, Request("voice", << >>, AnySuspended(callSid),
                                          "done", NoRef, << >>, NoOutcome,
                                          NoReply, introXml))]
        /\ UNCHANGED << env, dialVars, openaiClient, statusLog >>

\* Mutation: one lock for the whole server; /voice waits while any handler,
\* of whatever CallSid, is suspended.
Voice_GlobalLock(body, now) ==
    LET callSid == callSidOf(body, now)
    IN  /\ \A k \in CallSids : ~AnySuspended(k)
        /\ Delivered < MaxRequests
        /\ heap' = [heap EXCEPT ![callSid] = Append(@, << SEED >>)]
        /\ callHistories' = [callHistories EXCEPT ![callSid] = newRef(callSid)]
        /\ reqs' = [reqs EXCEPT ![callSid] =
                        Append(@, Request("voice", << >>, AnySuspended(callSid),
                                          "done", NoRef, << >>, NoOutcome,
                                          NoReply, introXml))]
        /\ UNCHANGED << env, dialVars, openaiClient, statusLog >>

\* app.post("/voice")
Voice(body, now) ==
    LET callSid == callSidOf(body, now)
    IN  /\ Delivered < MaxRequests
        /\ heap' = [heap EXCEPT ![callSid] = Append(@, << SEED >>)]
        /\ callHistories' = [callHistories EXCEPT ![callSid] = newRef(callSid)]
        /\ reqs' = [reqs EXCEPT ![callSid] =
                        Append(@, Request("voice", << >>, AnySuspended(callSid),
                                          "done", NoRef, << >>, NoOutcome,
                                          NoReply, introXml))]
        /\ UNCHANGED << env, dialVars, openaiClient, statusLog >>

\* Mutation: the handler starts from a new array whatever the Map holds.
historyRef_AlwaysNew(callSid) == newRef(callSid)

\* Mutation: one history for the whole process, the first CallSid's.
historyRef_Shared(callSid) ==
    IF callHistories[<< "CA1" >>] # NoRef THEN callHistories[<< "CA1" >>]
    ELSE newRef(callSid)

\* callHistories.get(callSid) || []  : the stored array, or a new one.
historyRef(callSid) ==
    IF callHistories[callSid] # NoRef THEN callHistories[callSid] ELSE newRef(callSid)

\* history.push(turn) on the array `ref` of heap h (allocating it if new).
push(h, ref, turn) ==
    IF ref.n > Len(h[ref.sid])
    THEN [h EXCEPT ![ref.sid] = Append(@, << turn >>)]
    ELSE [h EXCEPT ![ref.sid][ref.n] = Append(@, turn)]

\* Mutation: the hangup decision is not handed to twimlResponse.
gatherXml_HangupDropped(reply) ==
    twimlResponse(reply.text, ~reply.shouldHangup, FALSE)

\* server.js:71  the document /gather answers with.
gatherXml(reply) ==
    twimlResponse(reply.text, ~reply.shouldHangup, reply.shouldHangup)

\* app.post("/gather") with no client: getAgentReply returns the fallback
\* without waiting on anything outside the process, so no other handler
\* runs between the two pushes. (A rejected getAgentReply would reject the
\* handler after the first push: nothing more is stored or sent.)
GatherFallback(body, now, speech) ==
    LET callSid == callSidOf(body, now)
        history == historyRef(callSid)
        heap1 == push(heap, history, Turn("user", speech))
    IN  /\ ~openaiClient
        /\ Delivered < MaxRequests
        /\ \E reply \in { getAgentReply(openaiClient, speech, NoOutcome) } :
           IF reply.raised
           THEN /\ heap' = heap1
                /\ reqs' = [reqs EXCEPT ![callSid] =
                        Append(@, Request("gather", speech, AnySuspended(callSid),
                                          "failed", history, << >>, NoOutcome,
                                          reply, NoXml))]
                /\ UNCHANGED callHistories
           ELSE /\ heap' = push(heap1, history, Turn("assistant", reply.text))
                /\ callHistories' = [callHistories EXCEPT ![callSid] = history]
                /\ reqs' = [reqs EXCEPT ![callSid] =
                        Append(@, Request("gather", speech, AnySuspended(callSid),
                                          "done", history, << >>, NoOutcome,
                                          reply, gatherXml(reply)))]
        /\ UNCHANGED << env, dialVars, openaiClient, statusLog >>

\* app.post("/gather") with a client, up to the await of the completion.
GatherStart(body, now, speech) ==
    LET callSid == callSidOf(body, now)
        history == historyRef(callSid)
        heap1 == push(heap, history, Turn("user", speech))
    IN  /\ openaiClient
        /\ Delivered < MaxRequests
        /\ heap' = heap1
        /\ reqs' = [reqs EXCEPT ![callSid] =
                        Append(@, Request("gather", speech, AnySuspended(callSid),
                                   "await", history,
                                   requestMessages(heap1[history.sid][history.n], speech),
                                   NoOutcome, NoReply, NoXml))]
        /\ UNCHANGED << env, dialVars, openaiClient, callHistories, statusLog >>

\* The completion service answers the i-th delivery for callSid: the promise
\* of chat.completions.create settles.
CompletionSettles(callSid, i, outcome) ==
    /\ i \in DOMAIN reqs[callSid]
    /\ reqs[callSid][i].pc = "await"
    /\ reqs' = [reqs EXCEPT ![callSid][i].pc = "settled",
                            ![callSid][i].completion = outcome]
    /\ UNCHANGED << env, dialVars, openaiClient, callHistories, heap, statusLog >>

\* app.post("/gather") from the await on: the rest of getAgentReply, then
\* lines 68-73.
GatherResume(callSid, i) ==
    /\ i \in DOMAIN reqs[callSid]
    /\ reqs[callSid][i].pc = "settled"
    /\ \E r \in { reqs[callSid][i] } :
       \E reply \in { getAgentReply(openaiClient, r.speech, r.completion) } :
           IF reply.raised
           THEN /\ reqs' = [reqs EXCEPT ![callSid][i].pc = "failed",
                                        ![callSid][i].messages = << >>,
                                        ![callSid][i].reply = reply]
                /\ UNCHANGED << heap, callHistories >>
           ELSE /\ heap' = push(heap, r.history, Turn("assistant", reply.text))
                /\ callHistories' = [callHistories EXCEPT ![callSid] = r.history]
                /\ reqs' = [reqs EXCEPT ![callSid][i].pc = "done",
                                        ![callSid][i].messages = << >>,
                                        ![callSid][i].reply = reply,
                                        ![callSid][i].xml = gatherXml(reply)]
    /\ UNCHANGED << env, dialVars, openaiClient, statusLog >>

\* Mutation: a status event ends the session of its CallSid.
Status_DropsSession(body) ==
    /\ Delivered < MaxRequests
    /\ statusLog' = statusLog + 1
    /\ callHistories' = [k \in CallSids |-> IF k = body THEN NoRef ELSE callHistories[k]]
    /\ UNCHANGED << env, dialVars, openaiClient, heap, reqs >>

\* app.post("/status"): logs one line and answers 204.
Status(body) ==
    /\ Delivered < MaxRequests
    /\ statusLog' = statusLog + 1
    /\ UNCHANGED << env, dialVars, openaiClient, callHistories, heap, reqs >>

(***************************************************************************)
(* The server under any deliveries, MaxRequests of them in all.            *)
(***************************************************************************)
Next ==
    \/ \E body \in CallSidInputs, now \in Clock : Voice(body, now)
    \/ \E body \in CallSidInputs, now \in Clock, speech \in SpeechInputs :
            GatherFallback(body, now, speech)
    \/ \E body \in CallSidInputs, now \in Clock, speech \in SpeechInputs :
            GatherStart(body, now, speech)
    \/ \E callSid \in CallSids, i \in 1..MaxRequests, outcome \in Outcomes :
            CompletionSettles(callSid, i, outcome)
    \/ \E callSid \in CallSids, i \in 1..MaxRequests : GatherResume(callSid, i)
    \/ \E body \in CallSidInputs : Status(body)

Spec == Init /\ [][Next]_vars

\* The event loop runs the continuation of every settled promise; nothing
\* makes the completion service answer.
FairSpec ==
    Spec /\ \A callSid \in CallSids : \A i \in 1..MaxRequests :
                WF_vars(GatherResume(callSid, i))

(***************************************************************************)
(* The dialer (dialer.js): command line, contact file, pacing interval.    *)
(***************************************************************************)
\* dialer.js:46
FLOOR_MS == 5000
MINUTE_MS == 60000

\* argv.rate is a JavaScript number; the rates used here are the fractions
\* << numerator, denominator >> with a positive denominator.
Rates == { << 1, 2 >>, << 7, 1 >>, << 12, 1 >>, << 30, 1 >> }

Num(n) == << n, 1 >>

Less(a, b) == a[1] * b[2] < b[1] * a[2]

\* Math.max
MathMax(a, b) == IF Less(a, b) THEN b ELSE a

\* a / b, for b > 0
Divide(a, b) == << a[1] * b[2], a[2] * b[1] >>

\* Math.floor, as a fraction again
MathFloor(a) == Num(a[1] \div a[2])

\* Mutation: the requested rate is used as it is, without the floor.
intervalMs_NoFloor(rate) ==
    MathFloor(Divide(Num(MINUTE_MS), MathMax(Num(1), rate)))[1]

\* dialer.js:46  Math.max(5000, Math.floor(60000 / Math.max(1, argv.rate)))
intervalMs(rate) ==
    MathMax(Num(FLOOR_MS),
            MathFloor(Divide(Num(MINUTE_MS), MathMax(Num(1), rate))))[1]

\* Raw phone fields of the contact file: blank, padded, plain.
\* "  "
FieldBlank == << 32, 32 >>
\* " +7900 "
FieldPadded == << 32, 43, 55, 57, 48, 48, 32 >>
\* "+7901"
FieldPlain == << 43, 55, 57, 48, 49 >>

RawFields == { FieldBlank, FieldPadded, FieldPlain }

\* Headers of the file: with the phone column, or with the name only.
Headers == { << "name", "phone" >>, << "name" >> }

RECURSIVE SeqsUpTo(_, _)
SeqsUpTo(S, n) ==
    IF n = 0 THEN { << >> }
    ELSE LET shorter == SeqsUpTo(S, n - 1)
         IN  shorter \cup { Append(q, x) : q \in { t \in shorter : Len(t) = n - 1 }, x \in S }

\* Contact files: a header and up to MaxContacts data lines; line i holds
\* the name << "n", i >> and a raw phone field if the header has the column.
CsvFiles ==
    { [columns |-> h, lines |-> l] : h \in Headers, l \in SeqsUpTo(RawFields, MaxContacts) }

\* csv-parse with columns: true, trim: true: the i-th data line as an object
\* keyed by the header, every field trimmed.
parseRow(file, i) ==
    IF "phone" \in { file.columns[j] : j \in DOMAIN file.columns }
    THEN [name |-> << "n", i >>, phone |-> trim(file.lines[i])]
    ELSE [name |-> << "n", i >>]

\* Mutation: every row is kept.
hasPhone_Always(row) == TRUE

\* dialer.js:36  if (row.phone): the column exists and the field is not "".
hasPhone(row) == "phone" \in DOMAIN row /\ row.phone # << >>

(***************************************************************************)
(* The dialer process.                                                     *)
(***************************************************************************)
TelephonyEnv == { "TWILIO_ACCOUNT_SID", "TWILIO_AUTH_TOKEN" }

\* A console line: console.log or console.error, what it reports, and the
\* values interpolated into it.
Line(level, what, n, to, detail) ==
    [level |-> level, what |-> what, n |-> n, to |-> to, detail |-> detail]

\* One client.calls.create invocation: the loop index and destination it was
\* made with, when it was made, and how and when its promise settled.
Attempt(i, to, startedAt, outcome, endedAt) ==
    [index |-> i, to |-> to, startedAt |-> startedAt, outcome |-> outcome,
     endedAt |-> endedAt]

Pending == [kind |-> "pending", detail |-> << >>]
\* The promise resolves with a call whose sid the service chose.
Created(sid) == [kind |-> "created", detail |-> sid]
\* The promise rejects with an error.
Failed(message) == [kind |-> "error", detail |-> message]

\* How a placement can end, and what the i-th invocation then settles with.
PlaceKinds == { "created", "error" }
settlement(kind, i) ==
    IF kind = "created" THEN Created(<< "CA", i >>) ELSE Failed(<< "unreachable" >>)

\* Milliseconds a placement can take, and a timer can fire late by.
DurationsMs == { 0, 400 }
LatenessMs == { 0, 3 }

\* The ways a placement settles: created at once or after a while, or
\* refused at once.
Settlements ==
    { s \in PlaceKinds \X DurationsMs : s[1] = "error" => s[2] = 0 }

DialInit ==
    /\ env \in SUBSET EnvNames
    /\ argv \in [rate : Rates]
    /\ csv \in CsvFiles
    /\ dialerPc = "boot"
    /\ streamPos = 0
    /\ records = << >>
    /\ index = 0
    /\ attempts = << >>
    /\ console = << >>
    /\ clockMs = 0
    /\ exitCode = NoExit
    /\ dialed = "pending"
    /\ openaiClient = FALSE
    /\ callHistories = [k \in CallSids |-> NoRef]
    /\ heap = [k \in CallSids |-> << >>]
    /\ reqs = [k \in CallSids |-> << >>]
    /\ statusLog = 0

\* dialer.js:21-28, 85: the module body up to the call of main(), which
\* opens the stream.
Boot ==
    /\ dialerPc = "boot"
    /\ IF TelephonyEnv \subseteq env
       THEN /\ dialerPc' = "reading"
            /\ UNCHANGED << console, exitCode >>
       ELSE /\ console' = Append(console, Line("error", "credentials", 0, << >>, << >>))
            /\ exitCode' = Exit(1)
            /\ dialerPc' = "exited"
    /\ UNCHANGED << env, serverVars, argv, csv, streamPos, records, index,
                    attempts, clockMs, dialed >>

\* dialer.js:35-39  .on("data", ...)
OnData ==
    /\ dialerPc = "reading"
    /\ streamPos < Len(csv.lines)
    /\ streamPos' = streamPos + 1
    /\ \E row \in { parseRow(csv, streamPos + 1) } :
          records' = IF hasPhone(row) THEN Append(records, row) ELSE records
    /\ UNCHANGED << env, serverVars, argv, csv, dialerPc, index, attempts,
                    console, clockMs, exitCode, dialed >>

\* dialer.js:41, 85-88  .on("error", reject): the file cannot be read; main
\* rejects and the process exits.
OnError ==
    /\ dialerPc = "reading"
    /\ console' = Append(console, Line("error", "fatal", 0, << >>, << >>))
    /\ exitCode' = Exit(1)
    /\ dialerPc' = "exited"
    /\ UNCHANGED << env, serverVars, argv, csv, streamPos, records, index,
                    attempts, clockMs, dialed >>

\* dialer.js:48-64: the head of the loop body for the i-th contact, up to
\* the await of client.calls.create.
placed(i, at) ==
    Append(attempts, Attempt(i, trim(records[i].phone), at, Pending, at))

\* Mutation: main starts dialAll whatever readContacts found.
OnEnd_NoEmptyCheck ==
    /\ dialerPc = "reading"
    /\ streamPos = Len(csv.lines)
    /\ IF records = << >>
       THEN /\ console' = console \o << Line("log", "found", 0, << >>, << >>),
                                        Line("log", "done", 0, << >>, << >>) >>
            /\ dialed' = "undefined"
            /\ exitCode' = Exit(0)
            /\ dialerPc' = "exited"
            /\ UNCHANGED << index, attempts >>
       ELSE /\ console' = Append(console, Line("log", "found", Len(records), << >>, << >>))
            /\ index' = 1
            /\ attempts' = placed(1, clockMs)
            /\ dialerPc' = "create"
            /\ UNCHANGED << exitCode, dialed >>
    /\ UNCHANGED << env, serverVars, argv, csv, streamPos, records, clockMs >>

\* dialer.js:40, 75-81, 45-64  .on("end", ...) resolves the promise; main
\* goes on: it exits on an empty list, else calls dialAll, which runs up to
\* its first await.
OnEnd ==
    /\ dialerPc = "reading"
    /\ streamPos = Len(csv.lines)
    /\ IF records = << >>
       THEN /\ console' = Append(console, Line("error", "empty", 0, << >>, << >>))
            /\ exitCode' = Exit(1)
            /\ dialerPc' = "exited"
            /\ UNCHANGED << index, attempts >>
       ELSE /\ console' = Append(console, Line("log", "found", Len(records), << >>, << >>))
            /\ index' = 1
            /\ attempts' = placed(1, clockMs)
            /\ dialerPc' = "create"
            /\ UNCHANGED exitCode
    /\ UNCHANGED << env, serverVars, argv, csv, streamPos, records, clockMs, dialed >>

\* The attempt in flight, settled.
settled(outcome, at) ==
    [attempts EXCEPT ![Len(attempts)] = [@ EXCEPT !.outcome = outcome, !.endedAt = at]]

\* Mutation: no try/catch around the placement; a rejection leaves dialAll
\* and main, and the process exits.
CreateSettles_NoCatch(kind, duration) ==
    /\ dialerPc = "create"
    /\ clockMs' = clockMs + duration
    /\ attempts' = settled(settlement(kind, index), clockMs')
    /\ IF kind = "created"
       THEN /\ console' = Append(console, Line("log", "created", index,
                                              attempts[Len(attempts)].to,
                                   settlement(kind, index).detail))
            /\ dialerPc' = "sleep"
            /\ UNCHANGED exitCode
       ELSE /\ console' = Append(console, Line("error", "fatal", 0, << >>,
                                              settlement(kind, index).detail))
            /\ exitCode' = Exit(1)
            /\ dialerPc' = "exited"
    /\ UNCHANGED << env, serverVars, argv, csv, streamPos, records, index, dialed >>

\* dialer.js:63-70: the promise of client.calls.create settles; the outcome
\* is logged and the timer is set.
CreateSettles(kind, duration) ==
    /\ dialerPc = "create"
    /\ clockMs' = clockMs + duration
    /\ attempts' = settled(settlement(kind, index), clockMs')
    /\ console' = Append(console,
                         IF kind = "created"
                         THEN Line("log", "created", index,
                                   attempts[Len(attempts)].to,
                                   settlement(kind, index).detail)
                         ELSE Line("error", "error", index,
                                   attempts[Len(attempts)].to,
                                   settlement(kind, index).detail))
    /\ dialerPc' = "sleep"
    /\ UNCHANGED << env, serverVars, argv, csv, streamPos, records, index,
                    exitCode, dialed >>

\* dialer.js:70-72, 48-64, 81-82: elapsed ms after the timer was set, the
\* loop goes on with the contact at position next, up to the next await; past
\* the last contact dialAll returns (nothing), main logs and the process,
\* with nothing left to run, exits.
Wake(elapsed, next) ==
    /\ clockMs' = clockMs + elapsed
    /\ IF next <= Len(records)
       THEN /\ index' = next
            /\ attempts' = placed(next, clockMs')
            /\ dialerPc' = "create"
            /\ UNCHANGED << console, exitCode, dialed >>
       ELSE /\ dialed' = "undefined"
            /\ console' = Append(console, Line("log", "done", 0, << >>, << >>))
            /\ exitCode' = Exit(0)
            /\ dialerPc' = "exited"
            /\ UNCHANGED << index, attempts >>
    /\ UNCHANGED << env, serverVars, argv, csv, streamPos, records >>

LastFailed == attempts[Len(attempts)].outcome.kind = "error"

\* Mutation: the wait is skipped after a failed placement.
TimerFires_NoWaitAfterError(late) ==
    /\ dialerPc = "sleep"
    /\ Wake(IF LastFailed THEN 0 ELSE intervalMs(argv.rate) + late, index + 1)

\* Mutation: a failed placement is tried again.
TimerFires_RetryFailed(late) ==
    /\ dialerPc = "sleep"
    /\ Wake(intervalMs(argv.rate) + late, IF LastFailed THEN index ELSE index + 1)

\* dialer.js:70  the timer set with intervalMs fires, no earlier than asked.
TimerFires(late) ==
    /\ dialerPc = "sleep"
    /\ Wake(intervalMs(argv.rate) + late, index + 1)

DialNext ==
    \/ Boot
    \/ OnData
    \/ OnError
    \/ OnEnd
    \/ \E s \in Settlements : CreateSettles(s[1], s[2])
    \/ \E late \in LatenessMs : TimerFires(late)

DialSpec == DialInit /\ [][DialNext]_vars

\* The operator interrupts the dialer (SIGINT). dialer.js installs no
\* handler for it, so the runtime ends the process at once, whatever it is
\* waiting for.
Interrupt ==
    /\ dialerPc \in {"reading", "create", "sleep"}
    /\ dialerPc' = "exited"
    /\ exitCode' = Exit(130)
    /\ UNCHANGED << env, serverVars, argv, csv, streamPos, records, index,
                    attempts, console, clockMs, dialed >>

\* The dialer with an operator who may interrupt it.
CancelNext ==
    \/ DialNext
    \/ Interrupt

CancelSpec == DialInit /\ [][CancelNext]_vars

(***************************************************************************)
(* One turn: a single /gather delivery for one CallSid, on any of a few    *)
(* call states the server reaches, with the wider sets of inputs and of    *)
(* answers of the completion service.                                      *)
(***************************************************************************)
TurnSid == << "CA1" >>

\* Histories the Map holds for TurnSid before the turn: of a call that just
\* started, of a call one turn in, and of a call that was told goodbye.
TurnHistories ==
    { << SEED >>,
      << SEED, Turn("user", SpeechOther), Turn("assistant", FALLBACK_DEFAULT) >>,
      << SEED, Turn("user", SpeechDecline), Turn("assistant", FALLBACK_CLOSING) >> }

TurnSpeechInputs ==
    { << >>, SpeechDecline, SpeechDecline1, SpeechDecline2, SpeechDeclineMail,
      SpeechContact, SpeechOther }

TurnOutcomes ==
    { Rejected, Resolved(<< >>), Resolved(<< AiBlank >>), Resolved(<< AiPlain >>),
      Resolved(<< AiClosing >>), Resolved(<< AiGoodDay >>), Resolved(<< AiSeeYou >>),
      Resolved(<< AiEnding >>) }

TurnInit ==
    /\ env \in ServerEnvs
    /\ openaiClient = ("OPENAI_API_KEY" \in env)
    /\ DialerOff
    /\ \/ /\ callHistories = [k \in CallSids |-> NoRef]
          /\ heap = [k \in CallSids |-> << >>]
       \/ \E h \in TurnHistories :
            /\ callHistories = [k \in CallSids |->
                                  IF k = TurnSid THEN Ref(TurnSid, 1) ELSE NoRef]
            /\ heap = [k \in CallSids |-> IF k = TurnSid THEN << h >> ELSE << >>]
    /\ reqs = [k \in CallSids |-> << >>]
    /\ statusLog = 0

TurnGatherFallback(speech) == Delivered = 0 /\ GatherFallback(TurnSid, 1, speech)

TurnGatherStart(speech) == Delivered = 0 /\ GatherStart(TurnSid, 1, speech)

TurnSettles(outcome) == CompletionSettles(TurnSid, 1, outcome)

TurnResume == GatherResume(TurnSid, 1)

TurnNext ==
    \/ \E speech \in TurnSpeechInputs : TurnGatherFallback(speech)
    \/ \E speech \in TurnSpeechInputs : TurnGatherStart(speech)
    \/ \E outcome \in TurnOutcomes : TurnSettles(outcome)
    \/ TurnResume

TurnSpec == TurnInit /\ [][TurnNext]_vars

(***************************************************************************)
(* Views of the state used by the properties below.                        *)
(***************************************************************************)
\* callHistories.get(callSid): the stored history (<< >> when there is none).
StoredHistory(callSid) ==
    IF callHistories[callSid] = NoRef THEN << >>
    ELSE heap[callHistories[callSid].sid][callHistories[callSid].n]

HasSession(callSid) == callHistories[callSid] # NoRef

\* Position of the latest /voice delivery in a log (0 when there is none).
LastVoice(log) ==
    IF \E j \in DOMAIN log : log[j].route = "voice"
    THEN CHOOSE j \in DOMAIN log :
            /\ log[j].route = "voice"
            /\ \A m \in DOMAIN log : m > j => log[m].route # "voice"
    ELSE 0

\* The user/assistant pairs of the deliveries after position from, in
\* arrival order.
PairsAfter(log, from) ==
    [p \in 1..(2 * (Len(log) - from)) |->
        IF p % 2 = 1
        THEN Turn("user", log[from + (p + 1) \div 2].speech)
        ELSE Turn("assistant", log[from + p \div 2].reply.text)]

\* The latest /voice for a CallSid and every delivery after it arrived while
\* no handler for that CallSid was suspended, and all have been answered.
OneAfterAnother(log) ==
    /\ LastVoice(log) > 0
    /\ \A j \in LastVoice(log)..Len(log) : ~log[j].overlap /\ log[j].pc = "done"

(***************************************************************************)
(* C1. After onCallStart and N onTurn calls issued one after another on a  *)
(* sessionId, the stored history is the seed turn followed, for each call   *)
(* in call order, by a user turn with the call's input and an assistant     *)
(* turn with the call's reply: 1 + 2N turns. An empty input counts.         *)
(***************************************************************************)
C1_SequentialHistory ==
    \A k \in CallSids :
        OneAfterAnother(reqs[k]) =>
            /\ StoredHistory(k) = << SEED >> \o PairsAfter(reqs[k], LastVoice(reqs[k]))
            /\ Len(StoredHistory(k)) = 1 + 2 * (Len(reqs[k]) - LastVoice(reqs[k]))

\* Two turns one after another on a started call, one of them silent.
C1_Witness ==
    \E k \in CallSids :
        /\ OneAfterAnother(reqs[k])
        /\ Len(reqs[k]) - LastVoice(reqs[k]) >= 2
        /\ \E j \in DOMAIN reqs[k] :
            j > LastVoice(reqs[k]) /\ reqs[k][j].speech = << >>
        /\ openaiClient

(***************************************************************************)
(* C2. When onTurn calls for one sessionId overlap (a later one arrives    *)
(* while an earlier one is suspended at the completion call), then once     *)
(* all are answered the history is as if they had run one after another     *)
(* in arrival order: the seed, then each call's user turn immediately       *)
(* followed by its own assistant turn, none lost.                           *)
(***************************************************************************)
C2_Linearized ==
    \A k \in CallSids :
        LET log == reqs[k]
            v == LastVoice(log)
        IN  ( /\ v > 0
              /\ ~log[v].overlap
              /\ \A j \in v..Len(log) : log[j].pc = "done"
              /\ \E j \in v..Len(log) : log[j].overlap )
            => StoredHistory(k) = << SEED >> \o PairsAfter(log, v)

(***************************************************************************)
(* C3. Two sessionIds never share turns: whatever the interleaving of      *)
(* onCallStart and onTurn calls, the history stored for a sessionId is an   *)
(* array created by a call for that sessionId, and each of its turns was    *)
(* put there by a call for that sessionId: its user turns are the inputs    *)
(* of those calls, in arrival order, and its assistant turns their          *)
(* replies.                                                                 *)
(***************************************************************************)
\* The /gather deliveries for CallSid k whose handler works on array n.
GathersOn(k, n) ==
    SelectSeq(reqs[k], LAMBDA r : r.route = "gather" /\ r.history = Ref(k, n))

WithRole(turns, role) == SelectSeq(turns, LAMBDA t : t.role = role)

C3_Isolation ==
    \A k \in CallSids :
        /\ HasSession(k) => callHistories[k].sid = k
        /\ \A j \in DOMAIN reqs[k] :
                reqs[k][j].route = "gather" => reqs[k][j].history.sid = k
        /\ \A n \in DOMAIN heap[k] :
            LET users == WithRole(heap[k][n], "user")
                assistants == WithRole(heap[k][n], "assistant")
                calls == GathersOn(k, n)
                answered == SelectSeq(calls, LAMBDA r : r.pc = "done")
            IN  /\ Len(users) = Len(calls)
                /\ \A p \in DOMAIN users : users[p].content = calls[p].speech
                /\ Len(assistants) = Len(answered)
                /\ \A p \in DOMAIN assistants :
                        \E q \in DOMAIN answered :
                            assistants[p].content = answered[q].reply.text

\* Two sessions, each holding a turn, with different inputs.
C3_Witness ==
    \E k1 \in CallSids, k2 \in CallSids :
        /\ k1 # k2
        /\ HasSession(k1) /\ HasSession(k2)
        /\ \E p \in DOMAIN StoredHistory(k1) :
                StoredHistory(k1)[p] = Turn("user", SpeechDecline)
        /\ \E p \in DOMAIN StoredHistory(k2) :
                StoredHistory(k2)[p] = Turn("user", << >>)
        /\ \E j \in DOMAIN reqs[k2] : Suspended(reqs[k2][j])

(***************************************************************************)
(* C4. Hangup is terminal: once an onTurn on a started sessionId has been  *)
(* answered with a hangup, an onTurn arriving later for that sessionId      *)
(* leaves the stored history as it was or fails, and is not answered with   *)
(* "listen".                                                                *)
(***************************************************************************)
\* A /gather for the started call k has been answered with <Hangup/>.
Ended(k) ==
    /\ LastVoice(reqs[k]) > 0
    /\ \E j \in DOMAIN reqs[k] :
        /\ j > LastVoice(reqs[k])
        /\ reqs[k][j].route = "gather"
        /\ reqs[k][j].pc = "done"
        /\ reqs[k][j].xml.Hangup

\* This step is the arrival of a delivery of the given route for k.
Arrives(k, route) ==
    /\ Len(reqs'[k]) = Len(reqs[k]) + 1
    /\ reqs'[k][Len(reqs'[k])].route = route

C4_HangupTerminal ==
    [][ \A k \in CallSids :
            (Ended(k) /\ Arrives(k, "gather")) =>
                /\ \/ StoredHistory(k)' = StoredHistory(k)
                   \/ reqs'[k][Len(reqs'[k])].pc = "failed"
                /\ ~reqs'[k][Len(reqs'[k])].xml.Gather ]_vars

(***************************************************************************)
(* C5. The directive an onTurn returns speaks the assistant turn that this *)
(* call appended to the history, and ends the call exactly when the reply   *)
(* strategy said shouldHangup and listens otherwise (one of the two,        *)
(* never both, never neither). In particular onCallStart followed by an     *)
(* onTurn with a decline phrase, with no completion client, ends the call.  *)
(***************************************************************************)
\* This step answers the i-th delivery for k, a /gather.
Answers(k, i) ==
    /\ i \in DOMAIN reqs'[k]
    /\ reqs'[k][i].route = "gather"
    /\ reqs'[k][i].pc = "done"
    /\ i \in DOMAIN reqs[k] => reqs[k][i].pc # "done"

C5_Directive ==
    [][ \A k \in CallSids : \A i \in 1..MaxRequests :
            Answers(k, i) =>
                LET r == reqs'[k][i]
                    array == heap'[r.history.sid][r.history.n]
                    appended == array[Len(array)]
                IN  /\ appended.role = "assistant"
                    /\ r.xml.Say = << escapeXml(appended.content) >>
                    /\ r.xml.Hangup = r.reply.shouldHangup
                    /\ r.xml.Gather = ~r.reply.shouldHangup
                    /\ ( /\ ~openaiClient
                         /\ i = 2
                         /\ reqs[k][1].route = "voice"
                         /\ r.speech = SpeechDecline )
                       => /\ r.xml.Hangup /\ ~r.xml.Gather
                          /\ r.xml.Say = << escapeXml(FALLBACK_CLOSING) >> ]_vars

\* onCallStart then a declined turn answered with a hangup, no client; and,
\* on the other session, a turn answered with "listen".
C5_Witness ==
    /\ ~openaiClient
    /\ \E k \in CallSids :
        /\ Len(reqs[k]) = 2
        /\ reqs[k][1].route = "voice"
        /\ reqs[k][2].route = "gather" /\ reqs[k][2].speech = SpeechDecline
        /\ reqs[k][2].pc = "done" /\ reqs[k][2].xml.Hangup
    /\ \E k \in CallSids : \E j \in DOMAIN reqs[k] :
        reqs[k][j].route = "gather" /\ reqs[k][j].pc = "done" /\ reqs[k][j].xml.Gather

(***************************************************************************)
(* C6. onCallStart leaves the store holding, for its sessionId, one        *)
(* session whose history is exactly the seed system turn (the other         *)
(* sessions are as they were), and returns the opening utterance with       *)
(* "listen", never a hangup.                                                *)
(***************************************************************************)
C6_CallStart ==
    [][ \A k \in CallSids :
            Arrives(k, "voice") =>
                /\ HasSession(k)'
                /\ StoredHistory(k)' = << SEED >>
                /\ \A other \in CallSids \ {k} :
                        /\ callHistories'[other] = callHistories[other]
                        /\ StoredHistory(other)' = StoredHistory(other)
                /\ LET r == reqs'[k][Len(reqs'[k])]
                   IN  /\ r.pc = "done"
                       /\ r.xml.Say = << escapeXml(INTRO) >>
                       /\ r.xml.Gather
                       /\ ~r.xml.Hangup ]_vars

\* A call start on a sessionId that already held turns, another session
\* being under way.
C6_Witness ==
    \E k \in CallSids :
        /\ Len(reqs[k]) >= 2
        /\ reqs[k][1].route = "gather"
        /\ reqs[k][Len(reqs[k])].route = "voice"
        /\ StoredHistory(k) = << SEED >>
        /\ \E other \in CallSids \ {k} : Len(StoredHistory(other)) >= 1

(***************************************************************************)
(* C7. With no completion client, the reply to an input that contains a    *)
(* decline phrase (in any letter case) is the fixed closing text with       *)
(* shouldHangup = true, whatever the history of the call.                   *)
(***************************************************************************)
\* The inputs of the single-turn specification that contain a decline
\* phrase: "ne nado", "ne interesno", "neinteresno", in various cases.
DeclineInputs ==
    { SpeechDecline, SpeechDecline1, SpeechDecline2, SpeechDeclineMail }

C7_FallbackDecline ==
    ~openaiClient =>
        \A j \in DOMAIN reqs[TurnSid] :
            LET r == reqs[TurnSid][j]
            IN  (r.route = "gather" /\ r.speech \in DeclineInputs) =>
                    /\ r.pc = "done"
                    /\ r.reply.text = FALLBACK_CLOSING
                    /\ r.reply.shouldHangup
                    /\ ~r.reply.raised

\* A decline in capitals, answered on a call that already had a turn.
C7_Witness ==
    /\ ~openaiClient
    /\ Len(StoredHistory(TurnSid)) = 5
    /\ StoredHistory(TurnSid)[3] = Turn("assistant", FALLBACK_DEFAULT)
    /\ \E j \in DOMAIN reqs[TurnSid] :
        reqs[TurnSid][j].speech = SpeechDecline2 /\ reqs[TurnSid][j].pc = "done"

(***************************************************************************)
(* C8. With a completion client whose call fails, reply returns exactly    *)
(* what the fallback rules give for the latest input; the error is not      *)
(* raised to the caller, so the onTurn still appends the assistant turn     *)
(* (right after its user turn) and returns a directive that speaks it.      *)
(***************************************************************************)
C8_ErrorFallsBack ==
    \A j \in DOMAIN reqs[TurnSid] :
        LET r == reqs[TurnSid][j]
            h == StoredHistory(TurnSid)
        IN  (openaiClient /\ r.completion = Rejected) =>
                /\ r.pc # "failed"
                /\ r.pc = "done" =>
                    /\ ~r.reply.raised
                    /\ r.reply = ruleBasedFallback(r.speech)
                    /\ Len(h) >= 2
                    /\ h[Len(h) - 1] = Turn("user", r.speech)
                    /\ h[Len(h)] = Turn("assistant", ruleBasedFallback(r.speech).text)
                    /\ r.xml.Say = << escapeXml(ruleBasedFallback(r.speech).text) >>
                    /\ r.xml.Hangup = ruleBasedFallback(r.speech).shouldHangup

\* A failed completion on an input asking for mail, answered by the rules.
C8_Witness ==
    /\ openaiClient
    /\ \E j \in DOMAIN reqs[TurnSid] :
        /\ reqs[TurnSid][j].completion = Rejected
        /\ reqs[TurnSid][j].speech = SpeechContact
        /\ reqs[TurnSid][j].pc = "done"
        /\ reqs[TurnSid][j].reply.text = FALLBACK_CONTACT

(***************************************************************************)
(* C9. Every directive an onTurn returns carries a non-empty utterance:    *)
(* with no client, with a completion that has text, with a completion       *)
(* whose text is empty, blank or missing, and with a failed completion.     *)
(***************************************************************************)
C9_NeverSilent ==
    \A j \in DOMAIN reqs[TurnSid] :
        LET r == reqs[TurnSid][j]
        IN  r.route = "gather" =>
                /\ r.pc # "failed"
                /\ r.pc = "done" =>
                    /\ Len(r.xml.Say) = 1
                    /\ Len(r.xml.Say[1]) > 0
                    /\ Len(r.reply.text) > 0

\* A completion of white space only, answered with the stock question.
C9_Witness ==
    \E j \in DOMAIN reqs[TurnSid] :
        /\ reqs[TurnSid][j].completion = Resolved(<< AiBlank >>)
        /\ reqs[TurnSid][j].pc = "done"
        /\ reqs[TurnSid][j].xml.Say = << escapeXml(EMPTY_AI_DEFAULT) >>

(***************************************************************************)
(* C10. Every onTurn eventually returns a directive, even if the           *)
(* completion service never answers: the call is bounded by a timeout,      *)
(* after which the fallback reply is used.                                  *)
(***************************************************************************)
C10_EventuallyAnswered ==
    \A k \in CallSids : \A i \in 1..MaxRequests :
        (i \in DOMAIN reqs[k] /\ reqs[k][i].pc = "await")
            ~> (i \in DOMAIN reqs[k] /\ reqs[k][i].pc = "done")

(***************************************************************************)
(* Views of the dialer's state used by the properties below.               *)
(***************************************************************************)
\* The console lines that report a placement, in the order written.
JobLines == SelectSeq(console, LAMBDA l : l.what \in {"created", "error"})

\* The line the i-th placement is reported with once it has settled.
JobLine(i) ==
    Line(IF attempts[i].outcome.kind = "created" THEN "log" ELSE "error",
         attempts[i].outcome.kind, i, attempts[i].to, attempts[i].outcome.detail)

\* The dialer has left its loop (or never entered it) and the process is gone.
DialerExited == dialerPc = "exited"

(***************************************************************************)
(* C11. Dialer isolation: whichever placements fail, every contact of the  *)
(* filtered list is attempted; a placement that succeeds is reported as    *)
(* created, and exactly the failed ones are reported as errors.            *)
(***************************************************************************)
C11_DialerIsolation ==
    (DialerExited /\ attempts # << >>) =>
        /\ exitCode = Exit(0)
        /\ Len(attempts) = Len(records)
        /\ Len(JobLines) = Len(records)
        /\ \A i \in DOMAIN records :
            /\ attempts[i].index = i
            /\ attempts[i].to = trim(records[i].phone)
            /\ attempts[i].outcome.kind \in {"created", "error"}
            /\ JobLines[i] = JobLine(i)
        /\ Cardinality({ i \in DOMAIN JobLines : JobLines[i].level = "error" })
              = Cardinality({ i \in DOMAIN attempts : attempts[i].outcome.kind = "error" })

\* Three contacts, only the second placement fails: the first and the third
\* are reported as created and there is exactly one error line.
C11_Witness ==
    /\ DialerExited
    /\ Len(records) = 3
    /\ Len(attempts) = 3
    /\ attempts[1].outcome.kind = "created"
    /\ attempts[2].outcome.kind = "error"
    /\ attempts[3].outcome.kind = "created"
    /\ JobLines[1].what = "created"
    /\ JobLines[3].what = "created"
    /\ Cardinality({ i \in DOMAIN JobLines : JobLines[i].what = "error" }) = 1

(***************************************************************************)
(* C12. Dialer pacing: between the starts of two consecutive placements    *)
(* at least one full interval elapses (never less than the 5000 ms floor), *)
(* whether the earlier one succeeded or failed and however fast it         *)
(* returned; at 12 calls per minute three placements are spread over at    *)
(* least 10000 ms.                                                         *)
(***************************************************************************)
C12_Pacing ==
    /\ \A i \in DOMAIN attempts :
        i + 1 \in DOMAIN attempts =>
            /\ attempts[i + 1].startedAt - attempts[i].startedAt >= intervalMs(argv.rate)
            /\ attempts[i + 1].startedAt - attempts[i].startedAt >= FLOOR_MS
            /\ attempts[i + 1].startedAt - attempts[i].endedAt >= FLOOR_MS
    /\ (argv.rate = << 12, 1 >> /\ Len(attempts) >= 3) =>
            attempts[3].startedAt - attempts[1].startedAt >= 2 * 5000

\* At 12 calls per minute the second of three placements fails at once, and
\* the third still starts a full interval after it: 10000 ms after the first.
C12_Witness ==
    /\ argv.rate = << 12, 1 >>
    /\ Len(attempts) = 3
    /\ attempts[2].outcome.kind = "error"
    /\ attempts[2].endedAt = attempts[2].startedAt
    /\ attempts[3].startedAt - attempts[1].startedAt = 10000

(***************************************************************************)
(* C13. One placement per contact of the filtered list, in input order and *)
(* one at a time: the i-th invocation is for the i-th contact, it is made  *)
(* only once the one before has settled, and a failed placement is not     *)
(* made again.                                                             *)
(***************************************************************************)
C13_OneAtATime ==
    /\ Len(attempts) <= Len(records)
    /\ \A i \in DOMAIN attempts :
        /\ attempts[i].index = i
        /\ attempts[i].to = trim(records[i].phone)
        /\ i < Len(attempts) =>
            /\ attempts[i].outcome.kind # "pending"
            /\ attempts[i + 1].startedAt >= attempts[i].endedAt
    /\ (DialerExited /\ exitCode = Exit(0)) => Len(attempts) = Len(records)
    /\ index = Len(attempts)

\* The first of three placements failed, the run went on and finished: the
\* second invocation was for the second contact.
C13_Witness ==
    /\ DialerExited
    /\ Len(records) = 3
    /\ Len(attempts) = 3
    /\ attempts[1].outcome.kind = "error"
    /\ attempts[2].index = 2
    /\ attempts[2].startedAt > attempts[1].endedAt

(***************************************************************************)
(* C14. The run ends only after every contact was attempted, and it hands  *)
(* its caller the sequence of outcomes: one job per contact, in input      *)
(* order, with attemptIndex the 1-based position and the result PLACED     *)
(* with the call's id or FAILED with the reason.                           *)
(***************************************************************************)
DialJob(i) ==
    [contact |-> records[i], attemptIndex |-> i,
     result |-> IF attempts[i].outcome.kind = "created"
                THEN << "PLACED", attempts[i].outcome.detail >>
                ELSE << "FAILED", attempts[i].outcome.detail >>]

C14_ReportsJobs ==
    (DialerExited /\ exitCode = Exit(0)) =>
        /\ Len(attempts) = Len(records)
        /\ dialed \notin {"pending", "undefined"}
        /\ dialed = [i \in DOMAIN records |-> DialJob(i)]

(***************************************************************************)
(* C15. For every positive rate the interval between placements is         *)
(* max(5000 ms, 60000 / rate), taken to the whole millisecond: 5000 ms for *)
(* a rate of 12 or more, 60000 / rate below 12, rates below 1 per minute   *)
(* included.                                                               *)
(***************************************************************************)
C15_Interval ==
    dialerPc \in {"create", "sleep"} =>
        IF argv.rate[1] >= 12 * argv.rate[2]
        THEN intervalMs(argv.rate) = 5000
        ELSE intervalMs(argv.rate) = (60000 * argv.rate[2]) \div argv.rate[1]

(***************************************************************************)
(* C16. Lines of the contact file without a usable destination (no phone   *)
(* column, or a phone field that is empty once trimmed) are dropped while  *)
(* the file is read, before the paced loop: no placement is made for such  *)
(* a line, it takes no attempt index and no waiting, it does not abort the *)
(* batch and the remaining contacts keep their order.                      *)
(***************************************************************************)
Usable(i) ==
    /\ \E j \in DOMAIN csv.columns : csv.columns[j] = "phone"
    /\ \E p \in DOMAIN csv.lines[i] : ~IsSpace(csv.lines[i][p])

\* The data lines among the first n that have a usable destination.
UsableUpTo(n) == SelectSeq([i \in 1..n |-> i], Usable)

\* The longest one contact can take: its placement, then the interval.
LongestSlot ==
    intervalMs(argv.rate)
        + (CHOOSE m \in DurationsMs : \A x \in DurationsMs : x <= m)
        + (CHOOSE m \in LatenessMs : \A x \in LatenessMs : x <= m)

C16_SkipsUnusable ==
    /\ Len(records) = Len(UsableUpTo(streamPos))
    /\ \A j \in DOMAIN records :
        /\ records[j].name = << "n", UsableUpTo(streamPos)[j] >>
        /\ records[j].phone = trim(csv.lines[UsableUpTo(streamPos)[j]])
    /\ \A i \in DOMAIN attempts :
        /\ attempts[i].index = i
        /\ attempts[i].to = trim(csv.lines[UsableUpTo(streamPos)[i]])
    /\ dialerPc \in {"boot", "reading"} => (clockMs = 0 /\ attempts = << >>)
    /\ (DialerExited /\ exitCode = Exit(0)) =>
            clockMs <= Len(UsableUpTo(streamPos)) * LongestSlot
    /\ (console # << >> /\ console[Len(console)].what = "empty") =>
            UsableUpTo(Len(csv.lines)) = << >>

\* A blank line between two usable ones: two placements, the second with
\* index 2 for the third line, one interval after the first.
C16_Witness ==
    /\ csv.lines = << FieldPlain, FieldBlank, FieldPadded >>
    /\ DialerExited
    /\ exitCode = Exit(0)
    /\ Len(attempts) = 2
    /\ attempts[2].index = 2
    /\ attempts[2].to = << 43, 55, 57, 48, 48 >>
    /\ attempts[2].startedAt = intervalMs(argv.rate)

(***************************************************************************)
(* C17. A contact list that is empty once the lines without a destination  *)
(* are dropped is fatal: the process exits with a non-zero status before   *)
(* any work, with no placement made and no waiting.                        *)
(***************************************************************************)
C17_EmptyListFatal ==
    ( /\ dialerPc \notin {"boot", "reading"}
      /\ streamPos = Len(csv.lines)
      /\ UsableUpTo(Len(csv.lines)) = << >> ) =>
        /\ DialerExited
        /\ exitCode # NoExit
        /\ exitCode # Exit(0)
        /\ attempts = << >>
        /\ clockMs = 0
        /\ dialed = "pending"

\* A file of two blank lines was read to its end: the process has exited
\* with status 1 after the line about the empty list.
C17_Witness ==
    /\ csv = [columns |-> << "name", "phone" >>, lines |-> << FieldBlank, FieldBlank >>]
    /\ streamPos = 2
    /\ DialerExited
    /\ exitCode = Exit(1)
    /\ console = << Line("error", "empty", 0, << >>, << >>) >>
    /\ attempts = << >>

(***************************************************************************)
(* C18. Without the telephony credentials nothing is dialed and nothing is *)
(* served: the dialer reads no contact and places no call, and the webhook *)
(* server handles no call-start, turn or status event. (A missing          *)
(* completion key alone is not fatal.)                                     *)
(***************************************************************************)
C18_TelephonyRequired ==
    ~(TelephonyEnv \subseteq env) =>
        /\ \A k \in CallSids : reqs[k] = << >>
        /\ statusLog = 0
        /\ streamPos = 0
        /\ attempts = << >>

(***************************************************************************)
(* C19. Only a call start creates a session: a turn for a CallSid that has *)
(* no session fails and leaves the store as it was, so every stored        *)
(* history begins with the seed system turn.                               *)
(***************************************************************************)
C19_OnlyCallStartCreates ==
    \A k \in CallSids :
        HasSession(k) =>
            /\ StoredHistory(k) # << >>
            /\ StoredHistory(k)[1] = SEED

(***************************************************************************)
(* C20. A session's history is append-only: whatever a call-start, turn or *)
(* status event does, the history stored for a CallSid before the step is  *)
(* a prefix of the one stored after it, also when a call start arrives for *)
(* a CallSid that already has a session.                                   *)
(***************************************************************************)
IsPrefix(s, t) == Len(s) <= Len(t) /\ SubSeq(t, 1, Len(s)) = s

C20_AppendOnly ==
    [][ \A k \in CallSids :
            HasSession(k) =>
                /\ HasSession(k)'
                /\ IsPrefix(StoredHistory(k), StoredHistory(k)') ]_vars

(***************************************************************************)
(* C21. A turn suspended at the completion call blocks no other session:   *)
(* while a handler for one CallSid is pending, a call start or a turn for  *)
(* another CallSid can be handled, its completion can settle and its       *)
(* handler can resume and answer.                                          *)
(***************************************************************************)
C21_NoCrossBlocking ==
    \A a \in CallSids :
        AnySuspended(a) =>
            /\ \A body \in CallSidInputs, now \in Clock :
                (callSidOf(body, now) # a /\ Delivered < MaxRequests) =>
                    /\ ENABLED Voice(body, now)
                    /\ \A speech \in SpeechInputs : ENABLED GatherStart(body, now, speech)
            /\ \A b \in CallSids \ {a} :
                \A i \in DOMAIN reqs[b] :
                    /\ reqs[b][i].pc = "await" =>
                        \A outcome \in Outcomes : ENABLED CompletionSettles(b, i, outcome)
                    /\ reqs[b][i].pc = "settled" => ENABLED GatherResume(b, i)

\* A turn for one CallSid is still waiting for its completion; another
\* CallSid has had its call start and a turn of its own answered, and holds
\* its three turns.
C21_Witness ==
    \E a \in CallSids, b \in CallSids :
        /\ a # b
        /\ Len(reqs[a]) = 1
        /\ reqs[a][1].pc = "await"
        /\ Len(reqs[b]) = 2
        /\ reqs[b][1].route = "voice"
        /\ reqs[b][2].pc = "done"
        /\ reqs[b][2].xml.Say # << >>
        /\ Len(StoredHistory(b)) = 3

(***************************************************************************)
(* C22. Early termination by the operator starts no new placement and lets *)
(* the one in flight complete or fail: once the dialer has stopped, every  *)
(* contact either has a recorded outcome or was never attempted, and no    *)
(* placement is left started without an outcome.                           *)
(***************************************************************************)
C22_GracefulCancel ==
    DialerExited =>
        /\ \A i \in DOMAIN attempts : attempts[i].outcome.kind \in {"created", "error"}
        /\ Len(JobLines) = Len(attempts)

(***************************************************************************)
(* C23. A status event has no effect on the sessions: whatever CallSid it  *)
(* names, the step that logs it leaves the Map and every history as they   *)
(* were.                                                                   *)
(***************************************************************************)
C23_StatusFrame ==
    [][ statusLog' # statusLog =>
            /\ callHistories' = callHistories
            /\ heap' = heap
            /\ reqs' = reqs
            /\ \A k \in CallSids : StoredHistory(k)' = StoredHistory(k) ]_vars

\* A status event was logged and CA1, started and one turn in, still
\* holds its three turns.
C23_Witness ==
    /\ statusLog = 1
    /\ HasSession(<< "CA1" >>)
    /\ Len(reqs[<< "CA1" >>]) = 2
    /\ Len(StoredHistory(<< "CA1" >>)) = 3

(***************************************************************************)
(* C24. A completion that comes back with an empty, blank or missing text  *)
(* is treated as a failure of the completion service: the reply is what    *)
(* the fallback rules give for the latest input, hang-up included when the *)
(* input declines.                                                         *)
(***************************************************************************)
EmptyCompletions == { Resolved(<< >>), Resolved(<< AiBlank >>) }

C24_EmptyFallsBack ==
    \A j \in DOMAIN reqs[TurnSid] :
        ( /\ openaiClient
          /\ reqs[TurnSid][j].pc = "done"
          /\ reqs[TurnSid][j].completion \in EmptyCompletions ) =>
            /\ reqs[TurnSid][j].reply = ruleBasedFallback(reqs[TurnSid][j].speech)
            /\ reqs[TurnSid][j].xml.Hangup = ruleBasedFallback(reqs[TurnSid][j].speech).shouldHangup

(***************************************************************************)
(* C25. When the completion resolves, the turn ends the call exactly if    *)
(* the generated text, trimmed and lowercased, contains one of the four    *)
(* closing markers; the caller's input and the history play no part.       *)
(***************************************************************************)
Markers == { MARKER_1, MARKER_2, MARKER_3, MARKER_4 }

\* The generated text of a resolved completion contains a closing marker.
HasMarker(completion) ==
    /\ completion.content # << >>
    /\ \E m \in Markers : includes(toLowerCase(trim(completion.content[1])), m)

C25_HangupFromMarkers ==
    \A j \in DOMAIN reqs[TurnSid] :
        ( /\ openaiClient
          /\ reqs[TurnSid][j].pc = "done"
          /\ reqs[TurnSid][j].completion \in TurnOutcomes \ {Rejected} ) =>
            /\ reqs[TurnSid][j].reply.shouldHangup = HasMarker(reqs[TurnSid][j].completion)
            /\ reqs[TurnSid][j].xml.Hangup = HasMarker(reqs[TurnSid][j].completion)
            /\ reqs[TurnSid][j].xml.Gather = ~HasMarker(reqs[TurnSid][j].completion)

\* On a neutral input the generated text carries the fourth marker, and the
\* turn ends the call.
C25_Witness ==
    \E j \in DOMAIN reqs[TurnSid] :
        /\ openaiClient
        /\ reqs[TurnSid][j].pc = "done"
        /\ reqs[TurnSid][j].speech = SpeechOther
        /\ reqs[TurnSid][j].completion = Resolved(<< AiEnding >>)
        /\ reqs[TurnSid][j].reply.shouldHangup
        /\ reqs[TurnSid][j].xml.Hangup

(***************************************************************************)
(* C26. The fallback rules are total and ordered: every input, the empty   *)
(* one included, gets exactly one of the three fixed replies and nothing   *)
(* is raised; the decline phrases are tested first, so an input with both  *)
(* a decline and a contact phrase gets the closing reply; only the closing *)
(* reply hangs up.                                                         *)
(***************************************************************************)
Declines(speech) ==
    \E d \in { DECLINE_1, DECLINE_2, DECLINE_3 } : includes(toLowerCase(speech), d)

AsksContact(speech) ==
    \E c \in { CONTACT_1, CONTACT_2, CONTACT_3 } : includes(toLowerCase(speech), c)

C26_FallbackOrdered ==
    \A j \in DOMAIN reqs[TurnSid] :
        ~openaiClient =>
            /\ reqs[TurnSid][j].pc = "done"
            /\ ~reqs[TurnSid][j].reply.raised
            /\ reqs[TurnSid][j].reply \in
                { Reply(FALLBACK_CLOSING, TRUE), Reply(FALLBACK_CONTACT, FALSE),
                  Reply(FALLBACK_DEFAULT, FALSE) }
            /\ Declines(reqs[TurnSid][j].speech) =>
                    reqs[TurnSid][j].reply = Reply(FALLBACK_CLOSING, TRUE)
            /\ (AsksContact(reqs[TurnSid][j].speech) /\ ~Declines(reqs[TurnSid][j].speech)) =>
                    reqs[TurnSid][j].reply = Reply(FALLBACK_CONTACT, FALSE)
            /\ (~AsksContact(reqs[TurnSid][j].speech) /\ ~Declines(reqs[TurnSid][j].speech)) =>
                    reqs[TurnSid][j].reply = Reply(FALLBACK_DEFAULT, FALSE)
            /\ reqs[TurnSid][j].xml.Hangup = Declines(reqs[TurnSid][j].speech)

\* An input that both declines and asks for a letter got the closing reply
\* and the hang-up.
C26_Witness ==
    \E j \in DOMAIN reqs[TurnSid] :
        /\ ~openaiClient
        /\ reqs[TurnSid][j].speech = SpeechDeclineMail
        /\ Declines(SpeechDeclineMail)
        /\ AsksContact(SpeechDeclineMail)
        /\ reqs[TurnSid][j].reply = Reply(FALLBACK_CLOSING, TRUE)
        /\ reqs[TurnSid][j].xml.Hangup

(***************************************************************************)
(* C27. The dialogue context sent to the completion service is the system  *)
(* preamble followed by the session's history as it stands, the turn just  *)
(* appended included: every turn once, in order, the latest utterance last *)
(* and not repeated.                                                       *)
(***************************************************************************)
C27_ContextIsHistory ==
    \A j \in DOMAIN reqs[TurnSid] :
        reqs[TurnSid][j].pc = "await" =>
            reqs[TurnSid][j].messages =
                << Turn("system", SYSTEM_PROMPT) >>
                    \o heap[reqs[TurnSid][j].history.sid][reqs[TurnSid][j].history.n]

(***************************************************************************)
(* C28. A call start handled while an earlier turn of the same CallSid is  *)
(* suspended wins: once both are over, the stored history is the one the   *)
(* call start created, the seed turn and the turns of the deliveries that  *)
(* came after it; the older turn does not put its own history back.        *)
(***************************************************************************)
\* The user turns of the deliveries after position from, in arrival order.
UsersAfter(log, from) ==
    [p \in 1..(Len(log) - from) |-> Turn("user", log[from + p].speech)]

C28_FreshSessionWins ==
    \A k \in CallSids :
        (LastVoice(reqs[k]) > 0 /\ ~AnySuspended(k)) =>
            /\ HasSession(k)
            /\ StoredHistory(k)[1] = SEED
            /\ WithRole(StoredHistory(k), "user") = UsersAfter(reqs[k], LastVoice(reqs[k]))
            /\ Len(StoredHistory(k)) = 1 + 2 * (Len(reqs[k]) - LastVoice(reqs[k]))
====
